---- MODULE Spec2Model ----
(***************************************************************************)
(* Model of backend/agents/agent_orchestrator.py: the AgentOrchestrator,   *)
(* its constructor, the four-stage workflow process_documents_enhanced,    *)
(* the classification summary and the stage-result persistence.            *)
(*                                                                         *)
(* A Python dict is a record with a field "keys" (the keys present) and    *)
(* one field per key; a value that may be None carries a field "none".     *)
(* A string whose case matters is a sequence of one-character strings.     *)
(***************************************************************************)
EXTENDS Integers, Sequences, FiniteSets, TLC

\* ------------------------------------------------------------------ bounds
MaxMatches == 2
MaxItems == 2
MaxEntries == 3

\* ------------------------------------------------------- python helpers
WorkflowIds == {"wf1", "wf2"}

UpperCase == <<"A","B","C","D","E","F","G","H","I","J","K","L","M",
               "N","O","P","Q","R","S","T","U","V","W","X","Y","Z">>
LowerCase == <<"a","b","c","d","e","f","g","h","i","j","k","l","m",
               "n","o","p","q","r","s","t","u","v","w","x","y","z">>

\* str.lower() on one character
LowerChar(c) ==
    IF \E i \in 1..Len(UpperCase) : UpperCase[i] = c
    THEN LowerCase[CHOOSE i \in 1..Len(UpperCase) : UpperCase[i] = c]
    ELSE c

\* str.lower()
Lower(s) == [i \in 1..Len(s) |-> LowerChar(s[i])]

\* dict.get(key, default)
Get(d, key, default) == IF key \in d.keys THEN d[key] ELSE default

\* the empty dict {}
EmptyDict == [k \in {} |-> 0]

\* d[key] = value on a dict held as a function
DictSet(d, key, value) ==
    [k \in (DOMAIN d) \cup {key} |-> IF k = key THEN value ELSE d[k]]

\* d.get(key, default) on a dict held as a function
DictGet(d, key, default) == IF key \in DOMAIN d THEN d[key] ELSE default

\* a call's outcome: a returned value or a raised exception
Ok(v) == [raised |-> FALSE, exc |-> "", value |-> v]
Raise(e, v) == [raised |-> TRUE, exc |-> e, value |-> v]

\* ------------------------------------------------ confidence level strings
high == <<"h","i","g","h">>
medium == <<"m","e","d","i","u","m">>
low == <<"l","o","w">>
HighCapital == <<"H","i","g","h">>
urgent == <<"u","r","g","e","n","t">>

PyStr(s) == [none |-> FALSE, str |-> s]
PyNone == [none |-> TRUE, str |-> <<>>]

\* ------------------------------------------------------- match records
\* one element of enhanced_matches, a dict
Match(keys, label, level, score, prev) ==
    [keys |-> keys,
     qa_classification_label |-> label,
     qa_confidence_level |-> level,
     confidence_score |-> score,
     has_previous_match |-> prev]

LabelKey == "qa_classification_label"
LevelKey == "qa_confidence_level"
ScoreKey == "confidence_score"
PrevKey == "has_previous_match"

\* the match dicts the matching collaborators are taken to return
\* (confidence_score in hundredths)
MatchDicts ==
    { Match({LabelKey, LevelKey}, 1, PyStr(high), 0, FALSE),
      Match({LabelKey, LevelKey, ScoreKey}, 5, PyStr(HighCapital), 20, FALSE),
      Match({}, 0, PyNone, 0, FALSE),
      Match({LabelKey, LevelKey}, 1, PyNone, 0, FALSE),
      Match({LabelKey, LevelKey}, 5, PyStr(urgent), 0, FALSE),
      Match({LabelKey, LevelKey, ScoreKey, PrevKey}, 1, PyStr(low), 80, TRUE) }

RECURSIVE SeqsUpTo(_, _)
SeqsUpTo(S, n) ==
    IF n = 0 THEN {<<>>}
    ELSE LET shorter == SeqsUpTo(S, n - 1)
         IN shorter \cup {Append(q, e) : q \in shorter, e \in S}

MatchLists == SeqsUpTo(MatchDicts, MaxMatches)

\* ------------------------------------------- _generate_qa_classification_summary
\* None.lower()
NoLowerError == "AttributeError: 'NoneType' object has no attribute 'lower'"

\* "for m in None"
NotIterableError == "TypeError: 'NoneType' object is not iterable"

NoSummary ==
    [classification_counts |-> EmptyDict,
     confidence_distribution |-> EmptyDict,
     total_items |-> 0]

\* the body of "for match in matches" from position i on
RECURSIVE SummaryLoop(_, _, _, _)
SummaryLoop(matches, i, classification_counts, confidence_distribution) ==
    IF i > Len(matches)
    THEN Ok([classification_counts |-> classification_counts,
             confidence_distribution |-> confidence_distribution,
             total_items |-> Len(matches)])
    ELSE LET match == matches[i]
             label == Get(match, LabelKey, 5)
             counts == DictSet(classification_counts, label,
                               DictGet(classification_counts, label, 0) + 1)
             level == Get(match, LevelKey, PyStr(medium))
         IN  IF level.none
             THEN Raise(NoLowerError, NoSummary)
             ELSE LET confidence_level == Lower(level.str)
                  IN  SummaryLoop(matches, i + 1, counts,
                        IF confidence_level \in DOMAIN confidence_distribution
                        THEN [confidence_distribution
                                EXCEPT ![confidence_level] = @ + 1]
                        ELSE confidence_distribution)

\* variant: the distribution is initialised without the "low" key
_generate_qa_classification_summary_NoLow(matches) ==
    SummaryLoop(matches, 1, EmptyDict, [l \in {high, medium} |-> 0])

_generate_qa_classification_summary(matches) ==
    SummaryLoop(matches, 1, EmptyDict,
                [l \in {high, medium, low} |-> 0])

\* ------------------------------------------------------- stage results
\* translation_result: a dict with translated_content, or None
TranslationResult(none, keys, content) ==
    [none |-> none, keys |-> keys, translated_content |-> content]

\* extraction_result: a dict with materials, or None
ExtractionResult(none, keys, materials) ==
    [none |-> none, keys |-> keys, materials |-> materials]

\* supplier_result: a dict with items, or None
SupplierResult(none, keys, items) ==
    [none |-> none, keys |-> keys, items |-> items]

NoTranslation == TranslationResult(TRUE, {}, "")
NoExtraction == ExtractionResult(TRUE, {}, <<>>)
NoSupplier == SupplierResult(TRUE, {}, <<>>)
NoMatches == [none |-> TRUE, list |-> <<>>]

\* "not result": None and the empty dict are falsy
Falsy(result) == result.none \/ result.keys = {}

\* the documents at qa_document_path: no such file, an empty file, a text
Documents == {"missing", "", "doc"}

\* TranslationAgent.process_document
process_document(document) ==
    IF document = "missing"
    THEN Raise("FileNotFoundError", NoTranslation)
    ELSE Ok(TranslationResult(FALSE,
            {"original_content", "translated_content", "source_language",
             "target_language", "translation_confidence"},
            document))

\* materials and supplier items are numbered 1, 2, ...
ItemList(n) == [i \in 1..n |-> i]

\* ExtractionAgent.extract_materials_with_qa_classification
extract_materials_with_qa_classification(content) ==
    Ok(ExtractionResult(FALSE,
         {"materials", "extraction_confidence", "total_extracted"},
         ItemList(1)))

\* what the translation stage can hand to the orchestrator: the agent's own
\* results, and the missing or empty results line 66 guards against
TranslationOutcomes ==
    {process_document(d) : d \in Documents}
      \cup {Ok(NoTranslation), Ok(TranslationResult(FALSE, {}, ""))}

\* likewise for the extraction stage (line 82)
ExtractionOutcomes ==
    {extract_materials_with_qa_classification("doc")}
      \cup {Raise("ExtractionError", NoExtraction), Ok(NoExtraction),
            Ok(ExtractionResult(FALSE, {}, <<>>))}
      \cup {Ok(ExtractionResult(FALSE, {"materials"}, ItemList(n))) :
               n \in {0, MaxItems}}

\* SupplierBOMAgent.process_supplier_bom: {items: seq} or a failure
SupplierOutcomes ==
    {Raise("SupplierBOMError", NoSupplier), Ok(NoSupplier),
     Ok(SupplierResult(FALSE, {}, <<>>))}
      \cup {Ok(SupplierResult(FALSE, {"items"}, ItemList(n))) :
               n \in {0, MaxItems}}

\* ItemMatcher.match_items_with_knowledge_base and
\* ComparisonAgent.compare_materials: a list of match dicts, None or a failure
MatchOutcomes ==
    {Raise("MatchingError", NoMatches), Ok(NoMatches)}
      \cup {Ok([none |-> FALSE, list |-> l]) : l \in MatchLists}

\* a progress callback returns, raises, or never returns
CallbackOutcomes == {"ok", "raise", "hang"}

\* writing a stage file succeeds or raises inside _save_stage_result
SaveOutcomes == {"ok", "fail"}

\* ------------------------------------------------------------- state
VARIABLES
    constructed,     \* AgentOrchestrator.__init__ has completed
    init_failure,    \* what raised inside __init__'s try: "" if nothing did
    knowledge_base,  \* self.knowledge_base: [present, entries]
    item_matcher,    \* self.item_matcher: TRUE when an ItemMatcher is held
    run,             \* the current call of process_documents_enhanced
    twin,            \* the same call, same inputs, with every save succeeding
    legacy,          \* the call of process_documents awaiting the current call
    clock,           \* the time the next knowledge-base entry is stamped with
    kb_call          \* the last call of the knowledge base or the item matcher

vars == <<constructed, init_failure, knowledge_base, item_matcher, run, twin,
          legacy, clock, kb_call>>

NoKnowledgeBase == [present |-> FALSE, entries |-> <<>>]
NewKnowledgeBase == [present |-> TRUE, entries |-> <<>>]

\* ------------------------------------------------------------- events
\* what a call does to its surroundings, in order: the stages it invokes,
\* the progress callbacks it makes, the saves it attempts and its reads of
\* the knowledge-base statistics; ok tells whether a stage, callback or
\* read succeeded
Event(kind, name, pct, info, ok) ==
    [kind |-> kind, name |-> name, pct |-> pct, info |-> info, ok |-> ok]

Emit(s, e) == [s EXCEPT !.events = Append(@, e)]

EventsOf(s, kind) == SelectSeq(s.events, LAMBDA e : e.kind = kind)

\* ------------------------------------------------------------- result
\* final_result["summary"], lines 132-139, without the processing date
Summary(materials, items, successful, known, enhanced) ==
    [total_materials |-> materials,
     total_supplier_items |-> items,
     successful_matches |-> successful,
     knowledge_base_matches |-> known,
     enhanced_matching |-> enhanced]

\* final_result, lines 129-142
FinalResult(workflow_id, matches, summary, stats, qa_summary) ==
    [workflow_id |-> workflow_id,
     matches |-> matches,
     summary |-> summary,
     knowledge_base_stats |-> stats,
     qa_classification_summary |-> qa_summary]

NoResult ==
    FinalResult("", <<>>, Summary(0, 0, 0, 0, FALSE), EmptyDict, NoSummary)

\* ------------------------------------------------------------- the call
\* status: "idle" before any call, "running" inside the try block,
\* "handling" inside the except block, "returned" / "raised" when the call
\* is over, "blocked" while an awaited callback never returns
NewRun(workflow_id, progress_callback) ==
    [status |-> "running",
     pc |-> 1,
     workflow_id |-> workflow_id,
     progress_callback |-> progress_callback,
     translation_result |-> NoTranslation,
     extraction_result |-> NoExtraction,
     supplier_result |-> NoSupplier,
     enhanced_matches |-> NoMatches,
     final_result |-> NoResult,
     exc |-> "",
     warnings |-> 0,
     events |-> <<>>]

IdleRun == [NewRun("", FALSE) EXCEPT !.status = "idle"]

\* the statements of the try block (lines 54-150), in order
Step(op, stage, pct) == [op |-> op, stage |-> stage, pct |-> pct]

\* variant: each stage result is checked before it is saved
Program_CheckBeforeSave ==
    << Step("callback", "translation", 5),
       Step("call", "translation", 0),
       Step("check", "translation", 0),
       Step("save", "translation", 0),
       Step("callback", "translation", 30),
       Step("callback", "extraction", 35),
       Step("call", "extraction", 0),
       Step("check", "extraction", 0),
       Step("save", "extraction", 0),
       Step("callback", "extraction", 60),
       Step("callback", "supplier_bom", 65),
       Step("call", "supplier_bom", 0),
       Step("check", "supplier_bom", 0),
       Step("save", "supplier_bom", 0),
       Step("callback", "supplier_bom", 80),
       Step("callback", "comparison", 85),
       Step("call", "comparison", 0),
       Step("callback", "comparison", 95),
       Step("assemble", "final", 0),
       Step("save", "final", 0),
       Step("callback", "completed", 100),
       Step("return", "final", 0) >>

Program ==
    << Step("callback", "translation", 5),
       Step("call", "translation", 0),
       Step("save", "translation", 0),
       Step("check", "translation", 0),
       Step("callback", "translation", 30),
       Step("callback", "extraction", 35),
       Step("call", "extraction", 0),
       Step("save", "extraction", 0),
       Step("check", "extraction", 0),
       Step("callback", "extraction", 60),
       Step("callback", "supplier_bom", 65),
       Step("call", "supplier_bom", 0),
       Step("save", "supplier_bom", 0),
       Step("check", "supplier_bom", 0),
       Step("callback", "supplier_bom", 80),
       Step("callback", "comparison", 85),
       Step("call", "comparison", 0),
       Step("callback", "comparison", 95),
       Step("assemble", "final", 0),
       Step("save", "final", 0),
       Step("callback", "completed", 100),
       Step("return", "final", 0) >>

\* control passes to the next statement
Advance(s) == [s EXCEPT !.pc = @ + 1]

\* an exception leaves the try block for "except Exception as e"
Throw(s, e) == [s EXCEPT !.status = "handling", !.exc = e]

\* --------------------------------------------------- AgentOrchestrator.__init__
\* variant: the except branch resets item_matcher only
InitKnowledgeBase_KeepsKnowledgeBase(outcome) ==
    CASE outcome = "" ->
           [knowledge_base |-> NewKnowledgeBase, item_matcher |-> TRUE]
      [] outcome = "ItemMatcher" ->
           [knowledge_base |-> NewKnowledgeBase, item_matcher |-> FALSE]
      [] OTHER ->
           [knowledge_base |-> NoKnowledgeBase, item_matcher |-> FALSE]

\* lines 32-39: outcome names what raised inside the try, "" for nothing
InitKnowledgeBase(outcome) ==
    IF outcome = ""
    THEN [knowledge_base |-> NewKnowledgeBase, item_matcher |-> TRUE]
    ELSE [knowledge_base |-> NoKnowledgeBase, item_matcher |-> FALSE]

InitOutcomes == {"", "KnowledgeBase", "ItemMatcher"}

\* --------------------------------------------- process_documents_enhanced
\* "if progress_callback: await progress_callback(stage, pct, message)"
ReportProgress(s, stage, pct, outcome) ==
    IF ~s.progress_callback
    THEN Advance(s)
    ELSE LET called == Emit(s, Event("callback", stage, pct, "", outcome = "ok"))
         IN  CASE outcome = "ok" -> Advance(called)
               [] outcome = "raise" -> Throw(called, "CallbackError")
               [] OTHER -> [called EXCEPT !.status = "blocked"]

\* lines 58-62
InvokeTranslation(s, outcome) ==
    LET called == Emit(s, Event("stage", "translation", 0,
                                "translation_agent", ~outcome.raised))
    IN  IF outcome.raised
        THEN Throw(called, outcome.exc)
        ELSE Advance([called EXCEPT !.translation_result = outcome.value])

\* lines 76-78
InvokeExtraction(s, outcome) ==
    LET called == Emit(s, Event("stage", "extraction", 0,
                                "extraction_agent", ~outcome.raised))
    IN  IF outcome.raised
        THEN Throw(called, outcome.exc)
        ELSE Advance([called EXCEPT !.extraction_result = outcome.value])

\* line 95
InvokeSupplierBOM(s, outcome) ==
    LET called == Emit(s, Event("stage", "supplier_bom", 0,
                                "supplier_bom_agent", ~outcome.raised))
    IN  IF outcome.raised
        THEN Throw(called, outcome.exc)
        ELSE Advance([called EXCEPT !.supplier_result = outcome.value])

\* lines 112-123: the single strategy-selection point
MatchingStrategy == IF item_matcher THEN "item_matcher" ELSE "comparison_agent"

InvokeComparison(s, outcome) ==
    LET called == Emit(s, Event("stage", "comparison", 0,
                                MatchingStrategy, ~outcome.raised))
    IN  IF outcome.raised
        THEN Throw(called, outcome.exc)
        ELSE Advance([called EXCEPT !.enhanced_matches = outcome.value])

\* variant: no try/except around the write, a failure propagates
_save_stage_result_Propagates(s, stage, outcome) ==
    LET called == Emit(s, Event("save", stage, 0, s.workflow_id, TRUE))
    IN  IF outcome = "ok" THEN Advance(called) ELSE Throw(called, "OSError")

\* _save_stage_result, lines 198-210: the file results/{workflow_id}/
\* {stage}_result.json is written inside try/except Exception; a failure
\* is logged as a warning (s.warnings counts them)
_save_stage_result(s, stage, outcome) ==
    LET called == Emit(s, Event("save", stage, 0, s.workflow_id, TRUE))
    IN  IF outcome = "ok"
        THEN Advance(called)
        ELSE Advance([called EXCEPT !.warnings = @ + 1])

\* variant: only "not result" is tested, not the content of the result
CheckStageResult_ResultOnly(s, stage) ==
    CASE stage = "translation" ->
           IF Falsy(s.translation_result)
           THEN Throw(s, "Translation failed - no translated content received")
           ELSE Advance(s)
      [] stage = "extraction" ->
           IF Falsy(s.extraction_result)
           THEN Throw(s, "Material extraction failed - no materials extracted")
           ELSE Advance(s)
      [] OTHER ->
           IF Falsy(s.supplier_result)
           THEN Throw(s, "Supplier BOM processing failed - no items extracted")
           ELSE Advance(s)

\* lines 66-67, 82-85, 99-102
CheckStageResult(s, stage) ==
    CASE stage = "translation" ->
           IF Falsy(s.translation_result)
                \/ Get(s.translation_result, "translated_content", "") = ""
           THEN Throw(s, "Translation failed - no translated content received")
           ELSE Advance(s)
      [] stage = "extraction" ->
           IF Falsy(s.extraction_result)
                \/ Get(s.extraction_result, "materials", <<>>) = <<>>
           THEN Throw(s, "Material extraction failed - no materials extracted")
           ELSE Advance(s)
      [] OTHER ->
           IF Falsy(s.supplier_result)
                \/ Get(s.supplier_result, "items", <<>>) = <<>>
           THEN Throw(s, "Supplier BOM processing failed - no items extracted")
           ELSE Advance(s)

\* KnowledgeBase.get_processing_stats: never raises; an internal failure
\* yields the empty stats object
get_processing_stats(kb, internal_failure) ==
    IF internal_failure
    THEN Ok(EmptyDict)
    ELSE Ok([k \in {"total_entries"} |-> Len(kb.entries)])

\* variant: without a knowledge base the statistics are a zeroed stats object
KnowledgeBaseStats_ZeroedFallback(internal_failure) ==
    IF knowledge_base.present
    THEN get_processing_stats(knowledge_base, internal_failure)
    ELSE Ok([k \in {"total_entries"} |-> 0])

\* line 140
KnowledgeBaseStats(internal_failure) ==
    IF knowledge_base.present
    THEN get_processing_stats(knowledge_base, internal_failure)
    ELSE Ok(EmptyDict)

\* line 135: len([m for m in matches if m.get('confidence_score', 0) > 0.5])
SuccessfulMatches(matches) ==
    Cardinality({i \in 1..Len(matches) : Get(matches[i], ScoreKey, 0) > 50})

\* line 136: len([m for m in matches if m.get('has_previous_match', False)])
KnowledgeBaseMatches(matches) ==
    Cardinality({i \in 1..Len(matches) : Get(matches[i], PrevKey, FALSE)})

\* variant: the statistics are indexed by "total_entries" while the result
\* is built
AssembleFinalResult_IndexesStats(s, internal_failure) ==
    IF s.enhanced_matches.none
    THEN Throw(s, NotIterableError)
    ELSE LET matches == s.enhanced_matches.list
             stats == KnowledgeBaseStats(internal_failure)
             asked == IF knowledge_base.present
                      THEN Emit(s, Event("stats", "get_processing_stats", 0,
                                         "", ~internal_failure))
                      ELSE s
             qa_summary == _generate_qa_classification_summary(matches)
         IN  IF stats.raised THEN Throw(asked, stats.exc)
             ELSE IF knowledge_base.present
                       /\ "total_entries" \notin DOMAIN stats.value
                  THEN Throw(asked, "KeyError: 'total_entries'")
             ELSE IF qa_summary.raised THEN Throw(asked, qa_summary.exc)
             ELSE Advance([asked EXCEPT !.final_result =
                    FinalResult(s.workflow_id, matches,
                      Summary(Len(s.extraction_result.materials),
                              Len(s.supplier_result.items),
                              SuccessfulMatches(matches),
                              KnowledgeBaseMatches(matches), TRUE),
                      stats.value, qa_summary.value)])

\* lines 129-142
AssembleFinalResult(s, internal_failure) ==
    IF s.enhanced_matches.none
    THEN Throw(s, NotIterableError)
    ELSE LET matches == s.enhanced_matches.list
             stats == KnowledgeBaseStats(internal_failure)
             asked == IF knowledge_base.present
                      THEN Emit(s, Event("stats", "get_processing_stats", 0,
                                         "", ~internal_failure))
                      ELSE s
             qa_summary == _generate_qa_classification_summary(matches)
         IN  IF stats.raised THEN Throw(asked, stats.exc)
             ELSE IF qa_summary.raised THEN Throw(asked, qa_summary.exc)
             ELSE Advance([asked EXCEPT !.final_result =
                    FinalResult(s.workflow_id, matches,
                      Summary(Len(s.extraction_result.materials),
                              Len(s.supplier_result.items),
                              SuccessfulMatches(matches),
                              KnowledgeBaseMatches(matches), TRUE),
                      stats.value, qa_summary.value)])

\* line 150
ReturnResult(s) == [s EXCEPT !.status = "returned"]

\* variant: the handler reports the error and does not re-raise
HandleException_Swallows(s, outcome) ==
    IF ~s.progress_callback
    THEN [s EXCEPT !.status = "returned"]
    ELSE LET called == Emit(s, Event("callback", "error", 0, s.exc,
                                     outcome = "ok"))
         IN  CASE outcome = "ok" -> [called EXCEPT !.status = "returned"]
               [] outcome = "raise" ->
                    [called EXCEPT !.status = "raised", !.exc = "CallbackError"]
               [] OTHER -> [called EXCEPT !.status = "blocked"]

\* lines 152-156
HandleException(s, outcome) ==
    IF ~s.progress_callback
    THEN [s EXCEPT !.status = "raised"]
    ELSE LET called == Emit(s, Event("callback", "error", 0, s.exc,
                                     outcome = "ok"))
         IN  CASE outcome = "ok" -> [called EXCEPT !.status = "raised"]
               [] outcome = "raise" ->
                    [called EXCEPT !.status = "raised", !.exc = "CallbackError"]
               [] OTHER -> [called EXCEPT !.status = "blocked"]

\* the inputs one step may consume
Inputs(translation, extraction, supplier, matches, callback, save, stats) ==
    [translation |-> translation, extraction |-> extraction,
     supplier |-> supplier, matches |-> matches, callback |-> callback,
     save |-> save, stats_failure |-> stats]

NoInputs ==
    Inputs(Ok(NoTranslation), Ok(NoExtraction), Ok(NoSupplier), Ok(NoMatches),
           "ok", "ok", FALSE)

\* one step of a call from state s
Execute(s, in) ==
    IF s.status = "handling" THEN HandleException(s, in.callback)
    ELSE IF s.status # "running" THEN s
    ELSE LET st == Program[s.pc]
         IN  CASE st.op = "callback" ->
                    ReportProgress(s, st.stage, st.pct, in.callback)
               [] st.op = "save" -> _save_stage_result(s, st.stage, in.save)
               [] st.op = "check" -> CheckStageResult(s, st.stage)
               [] st.op = "assemble" -> AssembleFinalResult(s, in.stats_failure)
               [] st.op = "return" -> ReturnResult(s)
               [] st.op = "call" /\ st.stage = "translation" ->
                    InvokeTranslation(s, in.translation)
               [] st.op = "call" /\ st.stage = "extraction" ->
                    InvokeExtraction(s, in.extraction)
               [] st.op = "call" /\ st.stage = "supplier_bom" ->
                    InvokeSupplierBOM(s, in.supplier)
               [] OTHER -> InvokeComparison(s, in.matches)

\* ------------------------------------------------- materials and items
\* the extracted materials and supplier items that the numbers in a
\* materials or items list stand for (spec 3, ExtractedMaterial and
\* SupplierItem); a missing optional field is PyNone
BoltM6 == <<"B","o","l","t"," ","M","6">>
boltm6 == <<" ","b","o","l","t"," ","m","6"," ">>
BoltM6x20 == <<"B","o","l","t"," ","M","6","x","2","0">>
Washer == <<"W","a","s","h","e","r">>
NutM6 == <<"N","u","t"," ","M","6">>
PartB100 == <<"B","-","1","0","0">>
Partb100 == <<"b","-","1","0","0">>
PartN50 == <<"N","-","5","0">>
Acme == <<"A","c","m","e">>
ACME == <<"A","C","M","E">>
Other == <<"O","t","h","e","r">>
pcs == <<"p","c","s">>
kg == <<"k","g">>

ExtractedMaterial(name, part_number, vendor_name, unit, label, level) ==
    [material_name |-> name, part_number |-> part_number,
     vendor_name |-> vendor_name, unit |-> unit,
     qa_classification_label |-> label, qa_confidence_level |-> level]

SupplierItem(name, part_number, vendor_name, unit) ==
    [item_name |-> name, part_number |-> part_number,
     vendor_name |-> vendor_name, unit |-> unit]

\* materials 1 and 2 differ in case, spacing, unit and classification only
MaterialCatalogue ==
    << ExtractedMaterial(BoltM6, PyStr(PartB100), PyStr(Acme), pcs, 1, high),
       ExtractedMaterial(boltm6, PyStr(Partb100), PyStr(ACME), kg, 5, low),
       ExtractedMaterial(Washer, PyNone, PyNone, pcs, 2, medium) >>

SupplierCatalogue ==
    << SupplierItem(BoltM6x20, PyStr(PartB100), PyStr(Acme), pcs),
       SupplierItem(NutM6, PyStr(PartN50), PyStr(Other), pcs) >>

MaterialIndex(i) == ((i - 1) % Len(MaterialCatalogue)) + 1
SupplierIndex(j) == ((j - 1) % Len(SupplierCatalogue)) + 1

MaterialOf(i) == MaterialCatalogue[MaterialIndex(i)]
SupplierItemOf(j) == SupplierCatalogue[SupplierIndex(j)]

\* -------------------------------------------------------- fingerprints
\* str.strip(): leading and trailing blanks removed
RECURSIVE Strip(_)
Strip(s) ==
    IF s = <<>> THEN s
    ELSE IF Head(s) = " " THEN Strip(Tail(s))
    ELSE IF s[Len(s)] = " " THEN Strip(SubSeq(s, 1, Len(s) - 1))
    ELSE s

\* a field normalised for comparison: lowercase, stripped, "" when missing
Normalized(field) == IF field.none THEN <<>> ELSE Strip(Lower(field.str))

\* spec 4.1: the deterministic key of a material, the normalised
\* material_name|part_number|vendor_name
fingerprint(material) ==
    Normalized(PyStr(material.material_name)) \o <<"|">>
      \o Normalized(material.part_number) \o <<"|">>
      \o Normalized(material.vendor_name)

\* the same key for a supplier item
supplier_fingerprint(item) ==
    Normalized(PyStr(item.item_name)) \o <<"|">>
      \o Normalized(item.part_number) \o <<"|">>
      \o Normalized(item.vendor_name)

\* the fingerprints of the catalogued materials and supplier items
MaterialFingerprints ==
    [i \in 1..Len(MaterialCatalogue) |-> fingerprint(MaterialCatalogue[i])]
SupplierFingerprints ==
    [j \in 1..Len(SupplierCatalogue) |->
        supplier_fingerprint(SupplierCatalogue[j])]

\* ------------------------------------------------------ knowledge base
\* spec 3, KnowledgeBaseEntry
KnowledgeBaseEntry(f, supplier, confidence, workflow_id, timestamp) ==
    [fingerprint |-> f, matched_supplier_fingerprint |-> supplier,
     confirmed_confidence |-> confidence, workflow_id |-> workflow_id,
     timestamp |-> timestamp]

NoEntry == KnowledgeBaseEntry(<<>>, <<>>, 0, "", 0)

\* variant: every entry of the log counts, whatever its fingerprint
EntriesFor_AnyFingerprint(kb, f) == 1..Len(kb.entries)

\* the positions in the log of the entries recorded under fingerprint f
EntriesFor(kb, f) == {i \in 1..Len(kb.entries) : kb.entries[i].fingerprint = f}

\* the entry of the log that lookup answers with: the latest timestamp,
\* among equal timestamps the one written last
Latest(kb, f) ==
    CHOOSE i \in EntriesFor(kb, f) :
        \A j \in EntriesFor(kb, f) :
            \/ kb.entries[j].timestamp < kb.entries[i].timestamp
            \/ kb.entries[j].timestamp = kb.entries[i].timestamp /\ j <= i

\* variant: lookup answers with the first entry recorded under f
lookup_FirstWritten(kb, f) ==
    IF EntriesFor(kb, f) = {}
    THEN [kb |-> kb, found |-> FALSE, entry |-> NoEntry]
    ELSE [kb |-> kb, found |-> TRUE,
          entry |-> kb.entries[CHOOSE i \in EntriesFor(kb, f) :
                                  \A j \in EntriesFor(kb, f) : i <= j]]

\* spec 4.1, lookup(fingerprint): the most recent entry or nothing; kb is
\* the store as the call leaves it
lookup(kb, f) ==
    IF EntriesFor(kb, f) = {}
    THEN [kb |-> kb, found |-> FALSE, entry |-> NoEntry]
    ELSE [kb |-> kb, found |-> TRUE, entry |-> kb.entries[Latest(kb, f)]]

\* two entries state the same fact
SameFact(a, b) ==
    /\ a.fingerprint = b.fingerprint
    /\ a.matched_supplier_fingerprint = b.matched_supplier_fingerprint
    /\ a.confirmed_confidence = b.confirmed_confidence

\* variant: every record call appends, a repeated fact included
record_AlwaysAppends(kb, entry) ==
    [kb EXCEPT !.entries = Append(@, entry)]

\* spec 4.1, record(entry): appends the entry to the log, unless the
\* current entry of its fingerprint already states the same fact
record(kb, entry) ==
    IF lookup(kb, entry.fingerprint).found
         /\ SameFact(lookup(kb, entry.fingerprint).entry, entry)
    THEN kb
    ELSE [kb EXCEPT !.entries = Append(@, entry)]

\* ----------------------------------------------------- similarity scorer
\* the words of a normalised name
RECURSIVE Words(_, _)
Words(s, word) ==
    IF s = <<>> THEN (IF word = <<>> THEN {} ELSE {word})
    ELSE IF Head(s) = " "
         THEN (IF word = <<>> THEN {} ELSE {word}) \cup Words(Tail(s), <<>>)
         ELSE Words(Tail(s), Append(word, Head(s)))

\* spec 4.2, name similarity: the token overlap of the normalised names, in
\* hundredths
name_similarity(a, b) ==
    LET wa == Words(Strip(Lower(a)), <<>>)
        wb == Words(Strip(Lower(b)), <<>>)
    IN  IF wa \cup wb = {} THEN 0
        ELSE (100 * Cardinality(wa \cap wb)) \div Cardinality(wa \cup wb)

\* spec 4.2, part number: 1.0 when equal, 0.0 when different, 0.5 when
\* either side has none
part_number_signal(a, b) ==
    IF a.none \/ b.none THEN 50
    ELSE IF Normalized(a) = Normalized(b) THEN 100 ELSE 0

\* spec 4.2, vendor: case-insensitive equality
vendor_signal(a, b) ==
    IF ~a.none /\ ~b.none /\ Normalized(a) = Normalized(b) THEN 100 ELSE 0

\* spec 4.2, unit of measure
unit_signal(a, b) == IF Lower(a) = Lower(b) THEN 100 ELSE 0

Clamp(x) == IF x < 0 THEN 0 ELSE IF x > 100 THEN 100 ELSE x

\* spec 4.2, score(material, supplier_item) in hundredths: the weighted sum
\* of the four signals, weights 0.5, 0.3, 0.1 and 0.1, clamped to [0, 1]
score(material, item) ==
    Clamp((50 * name_similarity(material.material_name, item.item_name)
             + 30 * part_number_signal(material.part_number, item.part_number)
             + 10 * vendor_signal(material.vendor_name, item.vendor_name)
             + 10 * unit_signal(material.unit, item.unit)) \div 100)

\* a material and a supplier item carry the same part number
ExactPart(material, item) ==
    part_number_signal(material.part_number, item.part_number) = 100

\* the scores and exact part matches of the catalogued materials and items
Scores ==
    [i \in 1..Len(MaterialCatalogue) |->
        [j \in 1..Len(SupplierCatalogue) |->
            score(MaterialCatalogue[i], SupplierCatalogue[j])]]
ExactParts ==
    [i \in 1..Len(MaterialCatalogue) |->
        [j \in 1..Len(SupplierCatalogue) |->
            ExactPart(MaterialCatalogue[i], SupplierCatalogue[j])]]

\* spec 4.2, tie-breaking: the position in items of the best candidate: the
\* highest score, then an exact part number, then the first in the sequence
best_match(material, items) ==
    LET s(j) == Scores[MaterialIndex(material)][SupplierIndex(items[j])]
        p(j) == ExactParts[MaterialIndex(material)][SupplierIndex(items[j])]
        Better(j, k) ==
            \/ s(j) > s(k)
            \/ s(j) = s(k) /\ p(j) /\ ~p(k)
            \/ s(j) = s(k) /\ (p(j) <=> p(k)) /\ j <= k
    IN  CHOOSE j \in 1..Len(items) : \A k \in 1..Len(items) : Better(j, k)

\* ----------------------------------------------------------- item matcher
\* spec 4.3: below this score a material is returned unmatched
MatchThreshold == 30

MatchKeys ==
    {"material", "supplier_item", "confidence_score", "match_source",
     "has_previous_match", "qa_classification_label", "qa_confidence_level"}

\* spec 3, MatchRecord, as the dict the orchestrator reads; supplier_item 0
\* is "none"
MatchRecord(material, supplier_item, confidence, source, previous) ==
    [keys |-> MatchKeys,
     material |-> material,
     supplier_item |-> supplier_item,
     confidence_score |-> confidence,
     match_source |-> source,
     has_previous_match |-> previous,
     qa_classification_label |-> MaterialOf(material).qa_classification_label,
     qa_confidence_level |-> PyStr(MaterialOf(material).qa_confidence_level)]

\* what the knowledge base does during the matching of one material: it
\* works, it throws on lookup, or it throws on record
KnowledgeBaseFaults == {"none", "lookup", "record"}

\* spec 4.3, fresh scoring of one material against the supplier items
fresh_score(material, items) ==
    IF items = <<>> THEN MatchRecord(material, 0, 0, "fresh_score", FALSE)
    ELSE LET j == best_match(material, items)
             best == Scores[MaterialIndex(material)][SupplierIndex(items[j])]
         IN  IF best < MatchThreshold
             THEN MatchRecord(material, 0, best, "fresh_score", FALSE)
             ELSE MatchRecord(material, items[j], best, "fresh_score", FALSE)

\* the positions in items of the supplier items with fingerprint f
Offered(items, f) ==
    {j \in 1..Len(items) : SupplierFingerprints[SupplierIndex(items[j])] = f}

\* variant: a knowledge base that throws on lookup aborts the matching
match_material_Unguarded(kb, now, material, items, workflow_id, fault) ==
    LET f == MaterialFingerprints[MaterialIndex(material)]
        prior == lookup(kb, f)
        known == prior.found
                   /\ Offered(items, prior.entry.matched_supplier_fingerprint) # {}
        fresh == fresh_score(material, items)
    IN  IF fault # "none"
        THEN [kb |-> kb, now |-> now, raised |-> TRUE, recorded |-> FALSE,
              threw |-> TRUE, match |-> fresh]
        ELSE IF known
        THEN [kb |-> prior.kb, now |-> now, raised |-> FALSE,
              recorded |-> FALSE, threw |-> fault = "lookup",
              match |-> MatchRecord(material,
                  items[CHOOSE j \in Offered(items,
                            prior.entry.matched_supplier_fingerprint) :
                          \A k \in Offered(items,
                            prior.entry.matched_supplier_fingerprint) : j <= k],
                  prior.entry.confirmed_confidence, "knowledge_base", TRUE)]
        ELSE IF fresh.supplier_item = 0
        THEN [kb |-> prior.kb, now |-> now, raised |-> FALSE,
              recorded |-> FALSE, threw |-> FALSE, match |-> fresh]
        ELSE [kb |-> record(prior.kb,
                      KnowledgeBaseEntry(f,
                          SupplierFingerprints[SupplierIndex(fresh.supplier_item)],
                          fresh.confidence_score, workflow_id, now)),
              now |-> now + 1, raised |-> FALSE, recorded |-> TRUE,
              threw |-> FALSE, match |-> fresh]

\* spec 4.3, the matching of one material: the knowledge base is asked
\* first; a prior entry whose supplier is among the items answers; otherwise
\* the items are scored and a match that clears the threshold is recorded.
\* A lookup or record that throws is caught: the material is scored afresh
\* and nothing is recorded for it.
match_material(kb, now, material, items, workflow_id, fault) ==
    LET f == MaterialFingerprints[MaterialIndex(material)]
        prior == IF fault = "lookup"
                 THEN [kb |-> kb, found |-> FALSE, entry |-> NoEntry]
                 ELSE lookup(kb, f)
        supplier == prior.entry.matched_supplier_fingerprint
        known == prior.found /\ Offered(items, supplier) # {}
        fresh == fresh_score(material, items)
    IN  IF known
        THEN [kb |-> prior.kb, now |-> now, raised |-> FALSE,
              recorded |-> FALSE, threw |-> fault = "lookup",
              match |-> MatchRecord(material,
                  items[CHOOSE j \in Offered(items, supplier) :
                          \A k \in Offered(items, supplier) : j <= k],
                  prior.entry.confirmed_confidence, "knowledge_base", TRUE)]
        ELSE IF fresh.supplier_item = 0 \/ fault # "none"
        THEN [kb |-> prior.kb, now |-> now, raised |-> FALSE,
              recorded |-> FALSE,
              threw |-> fault = "lookup"
                          \/ (fault = "record" /\ fresh.supplier_item # 0),
              match |-> fresh]
        ELSE [kb |-> record(prior.kb,
                      KnowledgeBaseEntry(f,
                          SupplierFingerprints[SupplierIndex(fresh.supplier_item)],
                          fresh.confidence_score, workflow_id, now)),
              now |-> now + 1, raised |-> FALSE, recorded |-> TRUE,
              threw |-> FALSE, match |-> fresh]

\* the orders in which n materials can be processed
Orders(n) ==
    {o \in [1..n -> 1..n] : \A i, j \in 1..n : o[i] = o[j] => i = j}

\* the matching so far, after one more material, the one at position i
MatchStep(so_far, one, i) ==
    [kb |-> one.kb, now |-> one.now,
     raised |-> so_far.raised \/ one.raised,
     failed |-> IF one.threw THEN so_far.failed \cup {i} ELSE so_far.failed,
     matches |-> DictSet(so_far.matches, i, one.match)]

\* the materials at the positions order[k..], matched one after the other;
\* each step is evaluated once and handed on
RECURSIVE MatchInOrder(_, _, _, _, _, _, _)
MatchInOrder(so_far, materials, items, workflow_id, faults, order, k) ==
    IF k > Len(order) THEN so_far
    ELSE CHOOSE done \in
           {MatchInOrder(next, materials, items, workflow_id, faults, order,
                         k + 1) :
              next \in {MatchStep(so_far,
                           match_material(so_far.kb, so_far.now,
                               materials[order[k]], items, workflow_id,
                               faults[order[k]]),
                           order[k])}} : TRUE

\* spec 4.3, match_items_with_knowledge_base(extracted_materials,
\* supplier_items, workflow_id): one MatchRecord per material, in the order
\* of the materials; kb and now are the knowledge base and the time after
\* the call
match_items_with_knowledge_base(kb, now, materials, items, workflow_id, faults, order) ==
    CHOOSE result \in
      {[done EXCEPT !.matches = [i \in 1..Len(materials) |-> done.matches[i]]] :
         done \in {MatchInOrder([kb |-> kb, now |-> now, raised |-> FALSE,
                                 failed |-> {}, matches |-> EmptyDict],
                                materials, items, workflow_id, faults, order,
                                1)}} : TRUE

\* the last call made on the knowledge base or the item matcher: the
\* operation, the knowledge base before it, its arguments and what it returned
KBCall(op, before, now, entry, f, found) ==
    [op |-> op, before |-> before, now |-> now, entry |-> entry,
     fingerprint |-> f, found |-> found, materials |-> <<>>, items |-> <<>>,
     workflow_id |-> "", faults |-> <<>>, order |-> <<>>, failed |-> {},
     matches |-> <<>>]

NoCall == KBCall("none", NoKnowledgeBase, 0, NoEntry, <<>>, FALSE)

\* a call of the item matcher and what it returned
MatcherCall(before, now, materials, items, workflow_id, faults, order, done) ==
    [KBCall("match", before, now, NoEntry, <<>>, FALSE) EXCEPT
        !.materials = materials, !.items = items,
        !.workflow_id = workflow_id, !.faults = faults, !.order = order,
        !.failed = done.failed, !.matches = done.matches]

\* -------------------------------------------------------- legacy method
\* schemas.py, lines 18-21: the three fields of the model, matches a list
\* of dicts
BOMComparisonResult(workflow_id, matches, summary) ==
    IF \A i \in 1..Len(matches) : "keys" \in DOMAIN matches[i]
    THEN Ok([workflow_id |-> workflow_id, matches |-> matches,
             summary |-> summary])
    ELSE Raise("ValidationError", [workflow_id |-> "", matches |-> <<>>,
                                  summary |-> NoResult.summary])

\* a call of process_documents: its status, what it returned and what it
\* did to its surroundings
NoLegacyCall ==
    [status |-> "idle", events |-> <<>>,
     result |-> BOMComparisonResult("", <<>>, NoResult.summary).value]

\* variant: a failure of the enhanced method is answered with an empty result
process_documents_SwallowsFailure(s) ==
    LET result == s.final_result
        legacy_result == BOMComparisonResult(result.workflow_id,
                                             result.matches, result.summary)
    IN  IF s.status = "raised" \/ legacy_result.raised
        THEN [NoLegacyCall EXCEPT !.status = "returned", !.events = s.events]
        ELSE [status |-> "returned", events |-> s.events,
              result |-> legacy_result.value]

\* process_documents, lines 158-175, once the awaited enhanced call s is
\* over: its exception propagates, its result is converted; the method
\* invokes nothing else
process_documents(s) ==
    LET result == s.final_result
        legacy_result == BOMComparisonResult(result.workflow_id,
                                             result.matches, result.summary)
    IN  IF s.status = "raised" \/ legacy_result.raised
        THEN [NoLegacyCall EXCEPT !.status = "raised", !.events = s.events]
        ELSE [status |-> "returned", events |-> s.events,
              result |-> legacy_result.value]

\* ------------------------------------------------------------- actions
Init ==
    /\ constructed = FALSE
    /\ init_failure = ""
    /\ knowledge_base = NoKnowledgeBase
    /\ item_matcher = FALSE
    /\ run = IdleRun
    /\ twin = IdleRun
    /\ legacy = NoLegacyCall
    /\ clock = 1
    /\ kb_call = NoCall

Construct ==
    /\ ~constructed
    /\ \E outcome \in InitOutcomes :
         /\ init_failure' = outcome
         /\ knowledge_base' = InitKnowledgeBase(outcome).knowledge_base
         /\ item_matcher' = InitKnowledgeBase(outcome).item_matcher
    /\ constructed' = TRUE
    /\ UNCHANGED <<run, twin, legacy, clock, kb_call>>

StartRun ==
    /\ constructed
    /\ run.status \in {"idle", "returned", "raised"}
    /\ legacy.status # "awaiting"
    /\ \E workflow_id \in WorkflowIds, progress_callback \in BOOLEAN :
         /\ run' = NewRun(workflow_id, progress_callback)
         /\ twin' = NewRun(workflow_id, progress_callback)
    /\ legacy' = NoLegacyCall
    /\ kb_call' = NoCall
    /\ UNCHANGED <<constructed, init_failure, knowledge_base, item_matcher,
                   clock>>

At(s, op) == s.status = "running" /\ Program[s.pc].op = op

AtStage(s, stage) == At(s, "call") /\ Program[s.pc].stage = stage

\* the call and its twin take the step with the same inputs, the twin's
\* save succeeding
Take(in) ==
    /\ run' = Execute(run, in)
    /\ twin' = Execute(twin, [in EXCEPT !.save = "ok"])
    /\ UNCHANGED <<constructed, init_failure, knowledge_base, item_matcher,
                   legacy, clock, kb_call>>

ProgressCallback ==
    /\ At(run, "callback")
    /\ \E o \in CallbackOutcomes : Take([NoInputs EXCEPT !.callback = o])

TranslationStage ==
    /\ AtStage(run, "translation")
    /\ \E o \in TranslationOutcomes : Take([NoInputs EXCEPT !.translation = o])

ExtractionStage ==
    /\ AtStage(run, "extraction")
    /\ \E o \in ExtractionOutcomes : Take([NoInputs EXCEPT !.extraction = o])

SupplierBOMStage ==
    /\ AtStage(run, "supplier_bom")
    /\ \E o \in SupplierOutcomes : Take([NoInputs EXCEPT !.supplier = o])

ComparisonStage ==
    /\ AtStage(run, "comparison")
    /\ \E o \in MatchOutcomes : Take([NoInputs EXCEPT !.matches = o])

SaveStageResult ==
    /\ At(run, "save")
    /\ \E o \in SaveOutcomes : Take([NoInputs EXCEPT !.save = o])

CheckStage ==
    /\ At(run, "check")
    /\ Take(NoInputs)

Assemble ==
    /\ At(run, "assemble")
    /\ \E f \in BOOLEAN : Take([NoInputs EXCEPT !.stats_failure = f])

Return ==
    /\ At(run, "return")
    /\ Take(NoInputs)

ExceptHandler ==
    /\ run.status = "handling"
    /\ \E o \in CallbackOutcomes : Take([NoInputs EXCEPT !.callback = o])

Next ==
    \/ Construct
    \/ StartRun
    \/ ProgressCallback
    \/ TranslationStage
    \/ ExtractionStage
    \/ SupplierBOMStage
    \/ ComparisonStage
    \/ SaveStageResult
    \/ CheckStage
    \/ Assemble
    \/ Return
    \/ ExceptHandler

Spec == Init /\ [][Next]_vars

\* ------------------------------------------- knowledge base on its own
\* the facts recorded directly in the knowledge base
RecordedFingerprints ==
    {MaterialFingerprints[i] : i \in 1..Len(MaterialCatalogue)}
RecordedSuppliers ==
    {SupplierFingerprints[j] : j \in 1..Len(SupplierCatalogue)}
Confidences == {40, 90}

\* a fingerprint under which nothing is ever recorded
UnknownFingerprint == <<"|", "|">>

\* an orchestrator constructed with its knowledge base and item matcher
InitKB ==
    /\ constructed = TRUE
    /\ init_failure = ""
    /\ knowledge_base = InitKnowledgeBase("").knowledge_base
    /\ item_matcher = InitKnowledgeBase("").item_matcher
    /\ run = IdleRun
    /\ twin = IdleRun
    /\ legacy = NoLegacyCall
    /\ clock = 1
    /\ kb_call = NoCall

KBRecord ==
    /\ clock <= MaxEntries
    /\ \E f \in RecordedFingerprints, supplier \in RecordedSuppliers,
          confidence \in Confidences :
         LET entry == KnowledgeBaseEntry(f, supplier, confidence, "wf1", clock)
         IN  /\ knowledge_base' = record(knowledge_base, entry)
             /\ kb_call' = KBCall("record", knowledge_base, clock, entry, f,
                                  FALSE)
    /\ clock' = clock + 1
    /\ UNCHANGED <<constructed, init_failure, item_matcher, run, twin, legacy>>

KBLookup ==
    /\ \E f \in RecordedFingerprints \cup {UnknownFingerprint} :
         LET answer == lookup(knowledge_base, f)
         IN  /\ knowledge_base' = answer.kb
             /\ kb_call' = KBCall("lookup", knowledge_base, clock,
                                  answer.entry, f, answer.found)
    /\ UNCHANGED <<constructed, init_failure, item_matcher, run, twin, legacy,
                   clock>>

NextKB == KBRecord \/ KBLookup

SpecKB == InitKB /\ [][NextKB]_vars

\* --------------------------------------------- item matcher on its own
MaterialLists == SeqsUpTo(1..Len(MaterialCatalogue), MaxItems)
ItemLists == {ItemList(n) : n \in 0..MaxItems}

\* a call of match_items_with_knowledge_base by a client that holds no
\* earlier result
MatchItems ==
    /\ item_matcher
    /\ kb_call = NoCall
    /\ \E materials \in MaterialLists, items \in ItemLists,
          workflow_id \in WorkflowIds :
         \E faults \in [1..Len(materials) -> KnowledgeBaseFaults],
            order \in Orders(Len(materials)) :
           \E done \in {match_items_with_knowledge_base(knowledge_base, clock,
                           materials, items, workflow_id, faults, order)} :
               /\ knowledge_base' = done.kb
               /\ clock' = done.now
               /\ kb_call' = MatcherCall(knowledge_base, clock, materials,
                                         items, workflow_id, faults, order,
                                         done)
    /\ UNCHANGED <<constructed, init_failure, item_matcher, run, twin, legacy>>

\* the client drops the result it holds
DropResult ==
    /\ kb_call # NoCall
    /\ kb_call' = NoCall
    /\ UNCHANGED <<constructed, init_failure, knowledge_base, item_matcher,
                   run, twin, legacy, clock>>

NextMatcher == MatchItems \/ DropResult

SpecMatcher == InitKB /\ [][NextMatcher]_vars

\* ------------------------------ the workflow with the item matcher at work
\* lines 113-118 with the item matcher of spec 4.3 behind them: the
\* materials and items of the call are matched against the knowledge base,
\* which throws or not, in some processing order
MatcherStage ==
    /\ AtStage(run, "comparison")
    /\ item_matcher
    /\ LET materials == run.extraction_result.materials
           items == run.supplier_result.items
       IN  \E fault \in KnowledgeBaseFaults, order \in Orders(Len(materials)) :
             \E done \in {match_items_with_knowledge_base(knowledge_base,
                             clock, materials, items, run.workflow_id,
                             [i \in 1..Len(materials) |-> fault], order)} :
             LET faults == [i \in 1..Len(materials) |-> fault]
                 outcome == IF done.raised
                            THEN Raise("KnowledgeBaseError", NoMatches)
                            ELSE Ok([none |-> FALSE, list |-> done.matches])
                 in == [NoInputs EXCEPT !.matches = outcome]
             IN  /\ run' = Execute(run, in)
                 /\ twin' = Execute(twin, in)
                 /\ knowledge_base' = done.kb
                 /\ clock' = done.now
                 /\ kb_call' = MatcherCall(knowledge_base, clock, materials,
                                           items, run.workflow_id, faults,
                                           order, done)
    /\ UNCHANGED <<constructed, init_failure, item_matcher, legacy>>

\* a call of process_documents: it awaits process_documents_enhanced
StartLegacy ==
    /\ constructed
    /\ run.status \in {"idle", "returned", "raised"}
    /\ legacy.status # "awaiting"
    /\ \E workflow_id \in WorkflowIds, progress_callback \in BOOLEAN :
         /\ run' = NewRun(workflow_id, progress_callback)
         /\ twin' = NewRun(workflow_id, progress_callback)
    /\ legacy' = [NoLegacyCall EXCEPT !.status = "awaiting"]
    /\ kb_call' = NoCall
    /\ UNCHANGED <<constructed, init_failure, knowledge_base, item_matcher,
                   clock>>

\* the awaited call is over and process_documents finishes
LegacyCompletes ==
    /\ legacy.status = "awaiting"
    /\ run.status \in {"returned", "raised"}
    /\ legacy' = process_documents(run)
    /\ UNCHANGED <<constructed, init_failure, knowledge_base, item_matcher,
                   run, twin, clock, kb_call>>

NextWorkflow ==
    \/ StartRun
    \/ StartLegacy
    \/ ProgressCallback
    \/ TranslationStage
    \/ ExtractionStage
    \/ SupplierBOMStage
    \/ MatcherStage
    \/ SaveStageResult
    \/ CheckStage
    \/ Assemble
    \/ Return
    \/ ExceptHandler
    \/ LegacyCompletes

SpecWorkflow == InitKB /\ [][NextWorkflow]_vars

\* ------------------------------------------------------------- properties
Stages(s) == EventsOf(s, "stage")
Callbacks(s) == EventsOf(s, "callback")
Saves(s) == EventsOf(s, "save")

StageOrder == <<"translation", "extraction", "supplier_bom", "comparison">>

\* the output a stage must have produced for the next stage to start
UsableTranslation(s) ==
    /\ ~s.translation_result.none
    /\ "translated_content" \in s.translation_result.keys
    /\ s.translation_result.translated_content # ""

UsableExtraction(s) ==
    /\ ~s.extraction_result.none
    /\ "materials" \in s.extraction_result.keys
    /\ Len(s.extraction_result.materials) > 0

UsableSupplier(s) ==
    /\ ~s.supplier_result.none
    /\ "items" \in s.supplier_result.keys
    /\ Len(s.supplier_result.items) > 0

\* C1: the stages of a call are invoked in the order translation,
\* extraction, supplier_bom, comparison, each at most once; extraction only
\* after translation returned a non-empty translated_content, supplier_bom
\* only after extraction returned a non-empty materials list, comparison only
\* after supplier_bom returned a non-empty items list.
C1_StagesInOrder ==
    LET st == Stages(run)
    IN  /\ Len(st) <= Len(StageOrder)
        /\ \A i \in 1..Len(st) : st[i].name = StageOrder[i]
        /\ Len(st) >= 2 => st[1].ok /\ UsableTranslation(run)
        /\ Len(st) >= 3 => st[2].ok /\ UsableExtraction(run)
        /\ Len(st) >= 4 => st[3].ok /\ UsableSupplier(run)

C1_Witness ==
    /\ run.status = "returned"
    /\ Len(Stages(run)) = 4
    /\ Stages(run)[4].name = "comparison"

\* the index, among the stage events, of a failed translation, extraction
\* or supplier_bom stage: it raised, or returned no usable output
FailedStages(s) ==
    LET st == Stages(s)
    IN  {i \in 1..Len(st) :
           \/ i <= 3 /\ ~st[i].ok
           \/ i = 1 /\ st[i].ok /\ ~UsableTranslation(s)
           \/ i = 2 /\ st[i].ok /\ ~UsableExtraction(s)
           \/ i = 3 /\ st[i].ok /\ ~UsableSupplier(s)}

ErrorCallbacks(s) ==
    {i \in 1..Len(Callbacks(s)) : Callbacks(s)[i].name = "error"}

\* C2: when the translation, extraction or supplier_bom stage raises or
\* returns no usable output, no later stage is invoked, the call does not
\* return a result, and once it has raised the progress callback (when
\* supplied) has been invoked exactly once with stage "error", as the last
\* callback of the call.
C2_StageFailureAborts ==
    FailedStages(run) # {} =>
        /\ FailedStages(run) = {Len(Stages(run))}
        /\ run.status # "returned"
        /\ run.final_result = NoResult
        /\ \A i \in 1..Len(Callbacks(run)) :
              Callbacks(run)[i].name # "completed"
        /\ Cardinality(ErrorCallbacks(run)) <= 1
        /\ run.status = "raised" =>
              /\ run.exc # ""
              /\ run.progress_callback =>
                    ErrorCallbacks(run) = {Len(Callbacks(run))}
              /\ ~run.progress_callback => Callbacks(run) = <<>>

C2_Witness ==
    /\ run.status = "raised"
    /\ run.progress_callback
    /\ FailedStages(run) = {3}
    /\ Stages(run)[3].ok
    /\ ErrorCallbacks(run) = {Len(Callbacks(run))}

\* C3: a progress callback that raises or does not return at a milestone
\* does not stop the pipeline: the call neither aborts nor hangs because of
\* it.
C3_CallbackNeverStopsPipeline ==
    (\E i \in 1..Len(Callbacks(run)) :
        Callbacks(run)[i].name # "error" /\ ~Callbacks(run)[i].ok)
      => run.status \in {"running", "returned"}

\* a call was aborted by something other than the knowledge base: a stage
\* failed, the matching returned None or raised, a callback failed, or a
\* match record made the classification summary raise
FailedOtherwise(s) ==
    \/ FailedStages(s) # {}
    \/ Len(Stages(s)) = 4 /\ (~Stages(s)[4].ok \/ s.enhanced_matches.none)
    \/ \E i \in 1..Len(Callbacks(s)) : ~Callbacks(s)[i].ok
    \/ s.exc = NoLowerError

\* C4: when creating the KnowledgeBase or the ItemMatcher raised, the
\* orchestrator is constructed with neither; every call then matches with
\* the fallback comparison agent, a returned result has run all four stages
\* and carries the empty knowledge_base_stats, and no call is aborted by the
\* missing knowledge base.
C4_KnowledgeBaseSoftFailure ==
    init_failure # "" =>
        /\ constructed
        /\ ~knowledge_base.present
        /\ ~item_matcher
        /\ \A i \in 1..Len(Stages(run)) :
              Stages(run)[i].name = "comparison"
                => Stages(run)[i].info = "comparison_agent"
        /\ EventsOf(run, "stats") = <<>>
        /\ run.status = "returned" =>
              /\ Len(Stages(run)) = 4
              /\ run.final_result.matches = run.enhanced_matches.list
              /\ run.final_result.knowledge_base_stats = EmptyDict
        /\ run.status \in {"handling", "raised"} => FailedOtherwise(run)

C4_Witness ==
    /\ init_failure = "ItemMatcher"
    /\ run.status = "returned"
    /\ Len(Stages(run)) = 4
    /\ Stages(run)[4].info = "comparison_agent"
    /\ Len(run.final_result.matches) > 0

\* what a caller and the collaborators observe of a call
Observable(s) ==
    [stages |-> Stages(s),
     callbacks |-> Callbacks(s),
     status |-> s.status,
     final_result |-> s.final_result,
     exc |-> s.exc]

\* C5: whichever saves fail, the stages invoked, the progress callbacks
\* made and the result returned or error raised are those of the call in
\* which every save succeeds.
C5_SaveFailureIsInvisible == Observable(run) = Observable(twin)

C5_Witness ==
    /\ run.status = "returned"
    /\ Len(Saves(run)) = 4
    /\ run.warnings = 4
    /\ twin.warnings = 0

\* the final result of the call has been built (line 129-142)
Assembled(s) == s.final_result.summary.enhanced_matching

RECURSIVE SumOf(_, _)
SumOf(d, keys) ==
    IF keys = {} THEN 0
    ELSE LET k == CHOOSE x \in keys : TRUE
         IN  d[k] + SumOf(d, keys \ {k})

EmptySummary ==
    [classification_counts |-> EmptyDict,
     confidence_distribution |-> [l \in {high, medium, low} |-> 0],
     total_items |-> 0]

\* C6 as stated: classification_counts[l] counts the records whose
\* qa_classification_label is l, confidence_distribution has exactly the keys
\* high, medium, low and counts the records of each level, a record without
\* a level counting as medium and any other level string in none.
C6_CountsAsStated ==
    Assembled(run) =>
        LET M == run.final_result.matches
            S == run.final_result.qa_classification_summary
            WithLabel(l) ==
                {i \in 1..Len(M) :
                    LabelKey \in M[i].keys /\ M[i].qa_classification_label = l}
            WithLevel(v) ==
                {i \in 1..Len(M) :
                    IF LevelKey \in M[i].keys
                    THEN M[i].qa_confidence_level = PyStr(v)
                    ELSE v = medium}
        IN  /\ S.total_items = Len(M)
            /\ \A l \in {1, 5} \cup DOMAIN S.classification_counts :
                  DictGet(S.classification_counts, l, 0)
                    = Cardinality(WithLabel(l))
            /\ SumOf(S.classification_counts, DOMAIN S.classification_counts)
                  = S.total_items
            /\ DOMAIN S.confidence_distribution = {high, medium, low}
            /\ \A v \in {high, medium, low} :
                  S.confidence_distribution[v] = Cardinality(WithLevel(v))
            /\ M = <<>> => S = EmptySummary

\* C6, amended: as stated, with a record that has no qa_classification_label
\* counted under label 5 and the level strings compared after lower-casing.
C6_SummaryCounts ==
    Assembled(run) =>
        LET M == run.final_result.matches
            S == run.final_result.qa_classification_summary
            WithLabel(l) ==
                {i \in 1..Len(M) :
                    IF LabelKey \in M[i].keys
                    THEN M[i].qa_classification_label = l
                    ELSE l = 5}
            WithLevel(v) ==
                {i \in 1..Len(M) :
                    IF LevelKey \in M[i].keys
                    THEN Lower(M[i].qa_confidence_level.str) = v
                    ELSE v = medium}
        IN  /\ S.total_items = Len(M)
            /\ \A l \in {1, 5} \cup DOMAIN S.classification_counts :
                  DictGet(S.classification_counts, l, 0)
                    = Cardinality(WithLabel(l))
            /\ SumOf(S.classification_counts, DOMAIN S.classification_counts)
                  = S.total_items
            /\ DOMAIN S.confidence_distribution = {high, medium, low}
            /\ \A v \in {high, medium, low} :
                  S.confidence_distribution[v] = Cardinality(WithLevel(v))
            /\ M = <<>> => S = EmptySummary

C6_Witness ==
    /\ Assembled(run)
    /\ Len(run.final_result.matches) = 2
    /\ run.final_result.matches[1].keys = {}
    /\ run.final_result.matches[2].qa_confidence_level = PyStr(HighCapital)
    /\ run.final_result.qa_classification_summary.classification_counts[5] = 2

\* C7: summarising never fails on qa_confidence_level: whatever list of
\* match records the matching returned, absent and None levels included,
\* the summary is produced and the call is not aborted by it.
C7_SummaryNeverRaises ==
    ~run.enhanced_matches.none =>
        /\ ~_generate_qa_classification_summary(run.enhanced_matches.list).raised
        /\ run.exc # NoLowerError

\* C8: when the comparison stage returns None or an empty match list, the
\* call aborts: it reports no "completed", does not return a result, and
\* once over has raised after an "error" callback.
C8_EmptyMatchesAbort ==
    ( /\ Len(Stages(run)) = 4
      /\ Stages(run)[4].ok
      /\ (run.enhanced_matches.none \/ run.enhanced_matches.list = <<>>) )
      => /\ run.status # "returned"
         /\ \A i \in 1..Len(Callbacks(run)) :
               Callbacks(run)[i].name # "completed"
         /\ run.status = "raised" /\ run.progress_callback
               => ErrorCallbacks(run) # {}

\* a read of the knowledge-base statistics failed internally
StatsFailed(s) ==
    \E i \in 1..Len(EventsOf(s, "stats")) : ~EventsOf(s, "stats")[i].ok

\* C9: when get_processing_stats fails internally in a call whose four
\* stages succeeded, the result carries the empty stats object, the call is
\* not aborted by the read, and a call that returns has reported
\* "completed".
C9_StatsReadNeverAborts ==
    StatsFailed(run) =>
        /\ Len(Stages(run)) = 4
        /\ \A i \in 1..4 : Stages(run)[i].ok
        /\ Assembled(run) =>
              run.final_result.knowledge_base_stats = EmptyDict
        /\ run.status \in {"handling", "raised"} => FailedOtherwise(run)
        /\ run.status = "returned" =>
              /\ Assembled(run)
              /\ run.progress_callback =>
                    /\ Callbacks(run) # <<>>
                    /\ Callbacks(run)[Len(Callbacks(run))].name = "completed"

C9_Witness ==
    /\ StatsFailed(run)
    /\ run.status = "returned"
    /\ run.progress_callback
    /\ run.final_result.knowledge_base_stats = EmptyDict
    /\ Len(run.final_result.matches) > 0

SaveEvent(s, stage) == Event("save", stage, 0, s.workflow_id, TRUE)

\* C10 as stated: each of the four stages that returns is followed, before
\* the next stage is invoked and at the latest when the call returns, by a
\* save under the path keyed by the workflow id and that stage's name.
C10_SaveAfterEveryStage ==
    LET ev == run.events
    IN  \A i \in 1..Len(ev) :
          ev[i].kind = "stage" /\ ev[i].ok =>
            LET later == {k \in (i + 1)..Len(ev) : ev[k].kind = "stage"}
                limit == IF later = {} THEN Len(ev) + 1
                         ELSE CHOOSE k \in later : \A m \in later : k <= m
            IN  (later # {} \/ run.status = "returned") =>
                  \E j \in (i + 1)..(limit - 1) :
                      ev[j] = SaveEvent(run, ev[i].name)

\* C10, amended: a translation, extraction or supplier_bom stage that
\* returns is followed at once by the save under its own name and the
\* workflow id; nothing is saved under "comparison"; the assembled final
\* result is saved under "final", directly after it is built and before
\* "completed" is reported.
C10_StageArtifacts ==
    LET ev == run.events
    IN  /\ \A i \in 1..Len(ev) :
              ev[i].kind = "stage" /\ ev[i].ok /\ ev[i].name # "comparison" =>
                IF i < Len(ev)
                THEN ev[i + 1] = SaveEvent(run, ev[i].name)
                ELSE At(run, "save") /\ Program[run.pc].stage = ev[i].name
        /\ \A j \in 1..Len(ev) :
              ev[j].kind = "save" =>
                /\ ev[j].name \in {"translation", "extraction",
                                   "supplier_bom", "final"}
                /\ ev[j].info = run.workflow_id
                /\ ev[j].name = "final" => Assembled(run)
                /\ ev[j].name # "final" =>
                      j > 1 /\ ev[j - 1].kind = "stage"
                            /\ ev[j - 1].name = ev[j].name
        /\ Assembled(run) =>
              \/ At(run, "save") /\ Program[run.pc].stage = "final"
              \/ \E j \in 1..Len(ev) : ev[j] = SaveEvent(run, "final")
        /\ \A k \in 1..Len(ev) :
              ev[k].kind = "callback" /\ ev[k].name = "completed" =>
                k > 1 /\ ev[k - 1] = SaveEvent(run, "final")

C10_Witness ==
    /\ run.status = "returned"
    /\ Len(Saves(run)) = 4
    /\ Saves(run)[4] = SaveEvent(run, "final")
    /\ \A j \in 1..Len(run.events) : run.events[j].name # "comparison"
          \/ run.events[j].kind # "save"

\* the stage argument of the last progress callback of a call: for a call
\* that raised, the tag under which the failure was reported (lines 154-155)
ReportedStage(s) ==
    IF Callbacks(s) = <<>> THEN ""
    ELSE Callbacks(s)[Len(Callbacks(s))].name

\* C11: once a call has raised because its translation, extraction or
\* supplier_bom stage raised or returned no usable output, the error it
\* reported carries the tag of that stage: "translation", "extraction" or
\* "supplier_bom".
C11_ErrorTaggedWithStage ==
    ( /\ run.status = "raised"
      /\ run.progress_callback
      /\ FailedStages(run) # {} )
      => \A i \in FailedStages(run) :
            \/ ReportedStage(run) = StageOrder[i]
            \/ run.exc = StageOrder[i]

\* the progress milestones of lines 55-147, in the order of the code
Milestones ==
    << <<"translation", 5>>, <<"translation", 30>>, <<"extraction", 35>>,
       <<"extraction", 60>>, <<"supplier_bom", 65>>, <<"supplier_bom", 80>>,
       <<"comparison", 85>>, <<"comparison", 95>>, <<"completed", 100>> >>

\* the (stage, progress) pairs the callback of a call was invoked with
Reported(s) ==
    [i \in 1..Len(Callbacks(s)) |->
        <<Callbacks(s)[i].name, Callbacks(s)[i].pct>>]

\* C16: a call given a callback that returns a result has invoked the
\* callback exactly with the nine milestones, in order and with strictly
\* increasing progress, ("completed", 100) after the final result was built
\* and its save attempted; a call that raised has invoked it with a proper
\* prefix of the nine milestones followed by exactly one ("error", 0).
C16_ProgressMilestones ==
    run.progress_callback =>
        /\ \A i \in 1..(Len(Milestones) - 1) :
              Milestones[i][2] < Milestones[i + 1][2]
        /\ run.status = "returned" =>
              /\ Reported(run) = Milestones
              /\ \E k \in 2..Len(run.events) :
                    /\ run.events[k].kind = "callback"
                    /\ run.events[k].name = "completed"
                    /\ run.events[k - 1] = SaveEvent(run, "final")
                    /\ Assembled(run)
        /\ run.status = "raised" =>
              \E k \in 0..(Len(Milestones) - 1) :
                  Reported(run) = SubSeq(Milestones, 1, k) \o <<<<"error", 0>>>>

\* C18 as stated: the knowledge base is absent exactly when the item matcher
\* is; a call invokes at most one matching strategy, the one the
\* construction left, and exactly one once it has built its result; the
\* result's knowledge_base_stats is the empty map exactly when the strategy
\* was the fallback comparison agent.
C18_StatsEmptyIffFallback ==
    LET used == SelectSeq(Stages(run), LAMBDA e : e.name = "comparison")
    IN  /\ knowledge_base.present <=> item_matcher
        /\ Len(used) <= 1
        /\ \A i \in 1..Len(used) : used[i].info = MatchingStrategy
        /\ Assembled(run) =>
              /\ Len(used) = 1
              /\ run.final_result.knowledge_base_stats = EmptyDict
                    <=> used[1].info = "comparison_agent"

\* C18, amended: as above, but the result's knowledge_base_stats is the
\* empty map in every call that used the fallback comparison agent, and in
\* a call that used the item matcher it is what get_processing_stats
\* returned: the entry count, or the empty map when the read failed
\* internally.
C18_StatsFollowStrategy ==
    LET used == SelectSeq(Stages(run), LAMBDA e : e.name = "comparison")
        stats == run.final_result.knowledge_base_stats
    IN  /\ knowledge_base.present <=> item_matcher
        /\ Len(used) <= 1
        /\ \A i \in 1..Len(used) : used[i].info = MatchingStrategy
        /\ Assembled(run) =>
              /\ Len(used) = 1
              /\ used[1].info = "comparison_agent" => stats = EmptyDict
              /\ used[1].info = "item_matcher" =>
                    /\ StatsFailed(run) => stats = EmptyDict
                    /\ ~StatsFailed(run) =>
                          /\ DOMAIN stats = {"total_entries"}
                          /\ stats.total_entries = Len(knowledge_base.entries)

C18_Witness ==
    /\ run.status = "returned"
    /\ Stages(run)[4].info = "item_matcher"
    /\ ~StatsFailed(run)
    /\ "total_entries" \in DOMAIN run.final_result.knowledge_base_stats

\* C19: the callback of a call is never invoked with both "completed" and
\* "error", whatever the callback does, and a call that has reported
\* "completed" does not raise.
C19_CompletedExcludesError ==
    LET names == {Callbacks(run)[i].name : i \in 1..Len(Callbacks(run))}
    IN  /\ ~({"completed", "error"} \subseteq names)
        /\ "completed" \in names => run.status \notin {"handling", "raised"}

\* what a lookup returns, without the store
Answer(kb, f) == [found |-> lookup(kb, f).found, entry |-> lookup(kb, f).entry]

\* C13: after any sequence of record calls, lookup(f) returns nothing when
\* no entry was recorded under f, otherwise the entry under f with the
\* latest timestamp; the fact recorded last under f is the one returned, with
\* the confidence it was recorded with; lookup leaves the store unchanged.
C13_LookupLatestEntry ==
    /\ \A f \in RecordedFingerprints \cup {UnknownFingerprint} :
          LET answer == lookup(knowledge_base, f)
          IN  /\ answer.kb = knowledge_base
              /\ answer.found <=> EntriesFor(knowledge_base, f) # {}
              /\ answer.found =>
                    /\ answer.entry.fingerprint = f
                    /\ \E i \in EntriesFor(knowledge_base, f) :
                          knowledge_base.entries[i] = answer.entry
                    /\ \A i \in EntriesFor(knowledge_base, f) :
                          knowledge_base.entries[i].timestamp
                              <= answer.entry.timestamp
    /\ kb_call.op = "lookup" =>
          /\ knowledge_base = kb_call.before
          /\ kb_call.found <=> EntriesFor(kb_call.before, kb_call.fingerprint) # {}
          /\ kb_call.found =>
                kb_call.entry = Answer(knowledge_base, kb_call.fingerprint).entry
    /\ kb_call.op = "record" =>
          LET answer == lookup(knowledge_base, kb_call.entry.fingerprint)
          IN  /\ answer.found
              /\ SameFact(answer.entry, kb_call.entry)
              /\ \A i \in 1..Len(kb_call.before.entries) :
                    knowledge_base.entries[i] = kb_call.before.entries[i]

C13_Witness ==
    /\ kb_call.op = "lookup"
    /\ kb_call.found
    /\ Cardinality(EntriesFor(knowledge_base, kb_call.fingerprint)) >= 2
    /\ kb_call.entry.timestamp = Len(knowledge_base.entries)
    /\ Len(knowledge_base.entries) = MaxEntries

\* the store after fact (f, supplier, confidence) was recorded at time now
Recorded(kb, f, supplier, confidence, now) ==
    record(kb, KnowledgeBaseEntry(f, supplier, confidence, "wf1", now))

\* two stores answer every lookup alike and count the same entries
SameObservableState(a, b) ==
    /\ get_processing_stats(a, FALSE).value.total_entries
          = get_processing_stats(b, FALSE).value.total_entries
    /\ \A f \in RecordedFingerprints \cup {UnknownFingerprint} :
          Answer(a, f) = Answer(b, f)

\* C14: from any state of the knowledge base, recording a fact (fingerprint,
\* matched supplier fingerprint, confidence) a second time leaves
\* total_entries and the result of every lookup as they were after the first
\* record.
C14_RecordIdempotent ==
    /\ \A f \in RecordedFingerprints, supplier \in RecordedSuppliers,
          confidence \in Confidences :
          LET once == Recorded(knowledge_base, f, supplier, confidence, clock)
              twice == Recorded(once, f, supplier, confidence, clock + 1)
          IN  SameObservableState(once, twice)
    /\ ( /\ kb_call.op = "record"
         /\ Answer(kb_call.before, kb_call.fingerprint).found
         /\ SameFact(Answer(kb_call.before, kb_call.fingerprint).entry,
                     kb_call.entry) )
          => SameObservableState(kb_call.before, knowledge_base)

C14_Witness ==
    /\ kb_call.op = "record"
    /\ Answer(kb_call.before, kb_call.fingerprint).found
    /\ SameFact(Answer(kb_call.before, kb_call.fingerprint).entry,
                kb_call.entry)
    /\ Len(knowledge_base.entries) = 2
    /\ knowledge_base = kb_call.before
    /\ kb_call.now > 2

\* the matches a call of the item matcher returns when its materials are
\* processed in the given order
MatchesInOrder(call, order) ==
    match_items_with_knowledge_base(call.before, call.now, call.materials,
        call.items, call.workflow_id, call.faults, order).matches

\* the materials of a call have pairwise different fingerprints
DistinctFingerprints(materials) ==
    \A i, j \in 1..Len(materials) :
        MaterialFingerprints[MaterialIndex(materials[i])]
            = MaterialFingerprints[MaterialIndex(materials[j])] => i = j

WithEmptyKnowledgeBase(call, i) ==
    match_items_with_knowledge_base(NewKnowledgeBase, call.now,
        <<call.materials[i]>>, call.items, call.workflow_id, <<"none">>,
        <<1>>).matches[1]

\* C12: when the knowledge base threw on lookup or record during the
\* matching of a call, the matching is not aborted: the matcher returns one
\* record per material, the record of each material the knowledge base
\* failed for is the one an empty knowledge base gives (match_source
\* fresh_score, has_previous_match false), no entry is recorded for such a
\* material, the call is not aborted by the failure, and a call that returns
\* carries these records.
C12_KnowledgeBaseFaultTolerated ==
    kb_call.op = "match" /\ kb_call.failed # {} =>
        /\ Len(Stages(run)) = 4
        /\ Stages(run)[4].ok
        /\ ~run.enhanced_matches.none
        /\ run.enhanced_matches.list = kb_call.matches
        /\ Len(kb_call.matches) = Len(kb_call.materials)
        /\ \A i \in kb_call.failed :
              /\ kb_call.matches[i] = WithEmptyKnowledgeBase(kb_call, i)
              /\ kb_call.matches[i].match_source = "fresh_score"
              /\ ~kb_call.matches[i].has_previous_match
        /\ Len(knowledge_base.entries) >= Len(kb_call.before.entries)
        /\ \A k \in 1..Len(knowledge_base.entries) :
              \/ /\ k <= Len(kb_call.before.entries)
                 /\ knowledge_base.entries[k] = kb_call.before.entries[k]
              \/ /\ k > Len(kb_call.before.entries)
                 /\ \A i \in kb_call.failed :
                       knowledge_base.entries[k].fingerprint
                         # MaterialFingerprints[MaterialIndex(kb_call.materials[i])]
        /\ run.status \in {"handling", "raised"} => FailedOtherwise(run)
        /\ run.status = "returned" =>
              /\ Assembled(run)
              /\ run.final_result.matches = kb_call.matches

C12_Witness ==
    /\ run.status = "returned"
    /\ kb_call.op = "match"
    /\ kb_call.failed = {1, 2}
    /\ kb_call.faults[1] = "lookup"
    /\ Len(kb_call.before.entries) > 0
    /\ knowledge_base = kb_call.before
    /\ \A i \in 1..2 : run.final_result.matches[i].match_source = "fresh_score"

\* C17: a call of process_documents invokes the stages, saves and callbacks
\* of the call of process_documents_enhanced with the same arguments, in the
\* same order; it raises exactly when that call raises, and otherwise
\* returns a result with that call's workflow_id, matches and summary.
C17_LegacyDelegates ==
    legacy.status \in {"returned", "raised"} =>
        /\ legacy.events = twin.events
        /\ twin.status \in {"returned", "raised"}
        /\ legacy.status = "raised" <=> twin.status = "raised"
        /\ legacy.status = "returned" =>
              /\ legacy.result.workflow_id = twin.final_result.workflow_id
              /\ legacy.result.matches = twin.final_result.matches
              /\ legacy.result.summary = twin.final_result.summary
              /\ DOMAIN legacy.result = {"workflow_id", "matches", "summary"}

C17_Witness ==
    /\ legacy.status = "returned"
    /\ run.progress_callback
    /\ Len(legacy.result.matches) = 2
    /\ legacy.result.summary.successful_matches = 2
    /\ Len(legacy.events) > 9

====
